---- MODULE Spec2Model ----
(***************************************************************************)
(* Model of app.py, the Streamlit page of the Biomedical Abstract Triage   *)
(* Assistant: the startup configuration of the API key, the button handler *)
(* and classify_abstract (one remote text-generation request, cleaning of  *)
(* the response text, json.loads, the catch-all except clause).            *)
(*                                                                         *)
(* Texts are sequences of one-character strings.  The alphabet has no      *)
(* backslash, sign, decimal point or upper-case letter, so string escapes, *)
(* negative numbers, fractions and NaN/Infinity do not occur in the texts  *)
(* the model draws; everything else json.loads does on these texts is      *)
(* modelled character by character.                                        *)
(***************************************************************************)
EXTENDS Integers, Sequences, FiniteSets, TLC

VARIABLES pc, api_key_present, clicked, user_input, reply, result_data,
          display, calls, requests

vars == <<pc, api_key_present, clicked, user_input, reply, result_data,
          display, calls, requests>>

-----------------------------------------------------------------------------
(* Characters and the two notions of whitespace *)

Q == "\""

\* the backtick character (the grave accent cannot be written in a TLA+ string)
BT == "backtick"

\* str.strip() with no argument strips every character str.isspace() accepts
PyWhitespace == {" ", "\t", "\n", "\r", "\f"}

\* json.decoder.WHITESPACE is the regex [ \t\n\r]*
JsonWhitespace == {" ", "\t", "\n", "\r"}

\* json.decoder.scanstring (strict) rejects characters below 0x20 in a string
ControlChars == {"\t", "\n", "\r", "\f"}

Digits == {"0", "1"}

FenceJson == <<BT, BT, BT, "j", "s", "o", "n">>

Fence == <<BT, BT, BT>>

LabelKey == <<"l", "a", "b", "e", "l">>

ReasonKey == <<"r", "e", "a", "s", "o", "n">>

SetMin(S) == CHOOSE x \in S : \A y \in S : x <= y

SetMax(S) == CHOOSE x \in S : \A y \in S : x >= y

-----------------------------------------------------------------------------
(* str.strip, str.replace, substring test *)

Strip(s) ==
    LET keep == {i \in 1..Len(s) : s[i] \notin PyWhitespace}
    IN  IF keep = {} THEN <<>> ELSE SubSeq(s, SetMin(keep), SetMax(keep))

RECURSIVE Replace(_, _, _)
\* s.replace(old, new): leftmost non-overlapping occurrences, no rescan
Replace(s, old, new) ==
    IF Len(s) < Len(old) THEN s
    ELSE IF SubSeq(s, 1, Len(old)) = old
         THEN new \o Replace(SubSeq(s, Len(old) + 1, Len(s)), old, new)
         ELSE <<Head(s)>> \o Replace(Tail(s), old, new)

RECURSIVE ReplaceFirst(_, _, _)
\* s.replace(old, new, 1): only the first occurrence
ReplaceFirst(s, old, new) ==
    IF Len(s) < Len(old) THEN s
    ELSE IF SubSeq(s, 1, Len(old)) = old
         THEN new \o SubSeq(s, Len(old) + 1, Len(s))
         ELSE <<Head(s)>> \o ReplaceFirst(Tail(s), old, new)

HasSub(s, sub) ==
    \E i \in 1..(Len(s) - Len(sub) + 1) : SubSeq(s, i, i + Len(sub) - 1) = sub

CleanFirstOnly(text) ==
    ReplaceFirst(ReplaceFirst(Strip(text), FenceJson, <<>>), Fence, <<>>)

\* response.text.strip().replace(FenceJson, "").replace(Fence, "")
Clean(text) ==
    Replace(Replace(Strip(text), FenceJson, <<>>), Fence, <<>>)

-----------------------------------------------------------------------------
(* Python values produced by json.loads, and None *)

None == [t |-> "null", v |-> <<>>]

PyBool(b) == [t |-> "bool", v |-> b]

PyStr(s) == [t |-> "str", v |-> s]

PyNum(intpart) == [t |-> "num", v |-> intpart]

PyList(elems) == [t |-> "list", v |-> elems]

PyDict(items) == [t |-> "dict", v |-> items]

\* d[key] = val on a dict kept as its sequence of items: a repeated key keeps
\* its place and takes the new value
Put(items, key, val) ==
    IF \E i \in 1..Len(items) : items[i].k = key
    THEN [i \in 1..Len(items) |->
             IF items[i].k = key THEN [k |-> key, v |-> val] ELSE items[i]]
    ELSE Append(items, [k |-> key, v |-> val])

HasKey(d, key) == \E i \in 1..Len(d.v) : d.v[i].k = key

Get(d, key) == d.v[CHOOSE i \in 1..Len(d.v) : d.v[i].k = key].v

-----------------------------------------------------------------------------
(* json.loads *)

Fail == [ok |-> FALSE, val |-> None, end |-> 0]

Ok(val, end) == [ok |-> TRUE, val |-> val, end |-> end]

At(s, i) == IF i >= 1 /\ i <= Len(s) THEN s[i] ELSE ""

StartsAt(s, i, lit) ==
    i + Len(lit) - 1 <= Len(s) /\ SubSeq(s, i, i + Len(lit) - 1) = lit

SkipWs(s, i) ==
    LET stop == {j \in i..Len(s) : s[j] \notin JsonWhitespace}
    IN  IF stop = {} THEN Len(s) + 1 ELSE SetMin(stop)

DigitsEnd(s, i) ==
    LET stop == {j \in i..Len(s) : s[j] \notin Digits}
    IN  IF stop = {} THEN Len(s) + 1 ELSE SetMin(stop)

\* i is the position after the opening quote
ScanString(s, i) ==
    LET close == {j \in i..Len(s) : s[j] = Q}
    IN  IF close = {} THEN Fail
        ELSE LET e == SetMin(close)
                 body == SubSeq(s, i, e - 1)
             IN  IF \E j \in 1..Len(body) : body[j] \in ControlChars
                 THEN Fail
                 ELSE Ok(PyStr(body), e + 1)

\* NUMBER_RE = (-?(?:0|[1-9]\d*))(\.\d+)?([eE][-+]?\d+)? at a digit
ScanNumber(s, i) ==
    LET intEnd == IF s[i] = "0" THEN i + 1 ELSE DigitsEnd(s, i)
        hasExp == At(s, intEnd) = "e" /\ At(s, intEnd + 1) \in Digits
        end    == IF hasExp THEN DigitsEnd(s, intEnd + 1) ELSE intEnd
    IN  Ok(PyNum(SubSeq(s, i, intEnd - 1)), end)

RECURSIVE ScanOnce(_, _), ObjectMembers(_, _, _), ArrayElems(_, _, _)

\* json.scanner.py_make_scanner._scan_once
ScanOnce(s, i) ==
    LET c == At(s, i)
    IN  CASE c = Q   -> ScanString(s, i + 1)
          [] c = "{" ->
                LET j == SkipWs(s, i + 1)
                IN  IF At(s, j) = "}" THEN Ok(PyDict(<<>>), j + 1)
                    ELSE IF At(s, j) # Q THEN Fail
                    ELSE ObjectMembers(s, j + 1, <<>>)
          [] c = "[" ->
                LET j == SkipWs(s, i + 1)
                IN  IF At(s, j) = "]" THEN Ok(PyList(<<>>), j + 1)
                    ELSE ArrayElems(s, j, <<>>)
          [] c = "n" /\ StartsAt(s, i, <<"n", "u", "l", "l">>) -> Ok(None, i + 4)
          [] c = "t" /\ StartsAt(s, i, <<"t", "r", "u", "e">>) ->
                Ok(PyBool(TRUE), i + 4)
          [] c = "f" /\ StartsAt(s, i, <<"f", "a", "l", "s", "e">>) ->
                Ok(PyBool(FALSE), i + 5)
          [] c \in Digits -> ScanNumber(s, i)
          [] OTHER -> Fail

\* json.decoder.JSONObject: i is the position after the opening quote of a key
ObjectMembers(s, i, acc) ==
    LET key == ScanString(s, i)
    IN  IF ~key.ok THEN Fail
        ELSE
        LET colon == SkipWs(s, key.end)
        IN  IF At(s, colon) # ":" THEN Fail
            ELSE
            LET val == ScanOnce(s, SkipWs(s, colon + 1))
            IN  IF ~val.ok THEN Fail
                ELSE
                LET items == Put(acc, key.val.v, val.val)
                    e == SkipWs(s, val.end)
                IN  IF At(s, e) = "}" THEN Ok(PyDict(items), e + 1)
                    ELSE IF At(s, e) # "," THEN Fail
                    ELSE LET n == SkipWs(s, e + 1)
                         IN  IF At(s, n) # Q THEN Fail
                             ELSE ObjectMembers(s, n + 1, items)

\* json.decoder.JSONArray: i is the position of the next element
ArrayElems(s, i, acc) ==
    LET val == ScanOnce(s, i)
    IN  IF ~val.ok THEN Fail
        ELSE
        LET elems == Append(acc, val.val)
            e == SkipWs(s, val.end)
        IN  IF At(s, e) = "]" THEN Ok(PyList(elems), e + 1)
            ELSE IF At(s, e) # "," THEN Fail
            ELSE ArrayElems(s, SkipWs(s, e + 1), elems)

\* json.loads(s): JSONDecoder.decode, which rejects trailing non-whitespace
json_loads(s) ==
    LET r == ScanOnce(s, SkipWs(s, 1))
    IN  IF r.ok /\ SkipWs(s, r.end) = Len(s) + 1
        THEN [ok |-> TRUE, val |-> r.val]
        ELSE [ok |-> FALSE, val |-> None]

-----------------------------------------------------------------------------
(* Python semantics the button handler relies on *)

\* bool(x)
Truthy(x) ==
    CASE x.t = "null" -> FALSE
      [] x.t = "bool" -> x.v
      [] x.t = "num"  -> x.v # <<"0">>
      [] OTHER        -> Len(x.v) > 0

\* key in x raises TypeError when x is a bool or a number
InRaises(x) == x.t \in {"bool", "num", "null"}

\* key in x: key of a dict, element of a list, substring of a str
In(key, x) ==
    CASE x.t = "dict" -> HasKey(x, key)
      [] x.t = "list" -> \E i \in 1..Len(x.v) : x.v[i] = PyStr(key)
      [] x.t = "str"  -> HasSub(x.v, key)
      [] OTHER        -> FALSE

\* x[key] with a str key raises TypeError on a list and on a str
SubscriptRaises(x) == x.t # "dict"

-----------------------------------------------------------------------------
(* What the page shows: st.error, st.warning, st.subheader, st.info,       *)
(* st.markdown, each with the function that shows it, the exception whose  *)
(* text it carries ("none" when it carries none) and the value it renders  *)

Note(kind, by, exc, val) == [kind |-> kind, by |-> by, exc |-> exc, val |-> val]

NoReply == [kind |-> "none", text |-> <<>>, exc |-> "none"]

TextReply(text) == [kind |-> "text", text |-> text, exc |-> "none"]

ExcReply(exc) == [kind |-> "exc", text |-> <<>>, exc |-> exc]

\* the try body after generate_content returned or raised, and the except
\* clause: except Exception catches the remote failure and JSONDecodeError
classify_abstract_narrow(r) ==
    IF r.kind = "exc"
    THEN [value |-> None, shown |-> <<>>, raised |-> TRUE]
    ELSE LET p == json_loads(Clean(r.text))
         IN  IF p.ok
             THEN [value |-> p.val, shown |-> <<>>, raised |-> FALSE]
             ELSE [value |-> None, raised |-> FALSE,
                   shown |-> <<Note("error", "classify_abstract",
                                    "JSONDecodeError", None)>>]

classify_abstract(r) ==
    IF r.kind = "exc"
    THEN [value |-> None, raised |-> FALSE,
          shown |-> <<Note("error", "classify_abstract", r.exc, None)>>]
    ELSE LET p == json_loads(Clean(r.text))
         IN  IF p.ok
             THEN [value |-> p.val, shown |-> <<>>, raised |-> FALSE]
             ELSE [value |-> None, raised |-> FALSE,
                   shown |-> <<Note("error", "classify_abstract",
                                    "JSONDecodeError", None)>>]

CouldNotParse == <<Note("error", "handler", "none", None)>>

\* if result_data and "label" in result_data and "reason" in result_data
show_result(rd) ==
    IF ~Truthy(rd) THEN [shown |-> CouldNotParse, raised |-> FALSE]
    ELSE IF InRaises(rd) THEN [shown |-> <<>>, raised |-> TRUE]
    ELSE IF ~(In(LabelKey, rd) /\ In(ReasonKey, rd))
         THEN [shown |-> CouldNotParse, raised |-> FALSE]
    ELSE IF SubscriptRaises(rd)
         THEN [shown |-> <<Note("subheader", "handler", "none", None)>>,
               raised |-> TRUE]
    ELSE [shown |-> <<Note("subheader", "handler", "none", None),
                      Note("info", "handler", "none", Get(rd, LabelKey)),
                      Note("markdown", "handler", "none", Get(rd, ReasonKey))>>,
          raised |-> FALSE]

-----------------------------------------------------------------------------
(* The inputs: abstracts typed by the user, outcomes of the remote call *)

\* longest response text built from pieces, in pieces
MaxPieces == 3

Pieces ==
    {<<BT>>, Fence, FenceJson, <<" ">>, <<"\n">>, <<"\f">>, <<"1">>,
     <<"[">>, <<"]">>, <<Q>>}

RECURSIVE PieceTexts(_)
PieceTexts(n) ==
    IF n = 0 THEN {<<>>}
    ELSE LET shorter == PieceTexts(n - 1)
         IN  shorter \cup {p \o t : p \in Pieces, t \in shorter}

Quoted(s) == <<Q>> \o s \o <<Q>>

Member(key, val) == Quoted(key) \o <<":">> \o val

Object1(m) == <<"{">> \o m \o <<"}">>

Object2(m1, m2) == <<"{">> \o m1 \o <<",", " ">> \o m2 \o <<"}">>

Array2(v1, v2) == <<"[">> \o v1 \o <<",">> \o v2 \o <<"]">>

\* string values a response may carry: plain, with a fence inside, with
\* the json fence inside
StringValues ==
    {<<"x">>, <<"a", BT, BT, BT, "b">>, <<BT, BT, BT, "j", "s", "o", "n", "x">>}

LabelledDocs ==
    {Object2(Member(LabelKey, Quoted(l)), Member(ReasonKey, Quoted(r))) :
        l \in StringValues, r \in StringValues}

OtherDocs ==
    { Object2(Member(LabelKey, <<"1">>), Member(ReasonKey, <<"n", "u", "l", "l">>)),
      Object1(Member(LabelKey, Quoted(<<"x">>))),
      Object1(Member(ReasonKey, Quoted(<<"x">>))),
      Object1(<<>>),
      Array2(Quoted(LabelKey), Quoted(ReasonKey)),
      Array2(Quoted(LabelKey), <<"1">>),
      Quoted(LabelKey \o <<" ">> \o ReasonKey),
      Quoted(LabelKey),
      <<"t", "r", "u", "e">>,
      <<"f", "a", "l", "s", "e">>,
      <<"n", "u", "l", "l">>,
      <<"0">>,
      <<"1", "e", "1">>,
      <<"{">> \o Member(LabelKey, Quoted(<<"x">>)) \o <<",">>,
      <<"x", " ", "x">> }

Docs == LabelledDocs \cup OtherDocs

Pads == {<<>>, <<" ", "\n">>}

Newlines == {<<>>, <<"\n">>}

\* r inside a markdown fence
Wrap(w1, n1, r, n2, w2) == w1 \o FenceJson \o n1 \o r \o n2 \o Fence \o w2

FencedDocs == {Wrap(<<" ">>, <<"\n">>, d, <<"\n">>, <<" ">>) : d \in Docs}

Responses == PieceTexts(MaxPieces) \cup Docs \cup FencedDocs

\* a network failure, the 429 quota rejection
RemoteErrors == {"ServiceUnavailable", "ResourceExhausted"}

Replies == {TextReply(t) : t \in Responses} \cup {ExcReply(e) : e \in RemoteErrors}

example_abstract == <<"x", " ", "x">>

Inputs == {<<>>, <<" ">>, <<"\n", "\f">>, <<" ", "x", "\n">>, example_abstract}

-----------------------------------------------------------------------------
(* One run of the script, top to bottom; Streamlit runs it again on every  *)
(* interaction                                                             *)

Init ==
    /\ pc = "startup"
    /\ api_key_present \in BOOLEAN
    /\ clicked = FALSE
    /\ user_input = example_abstract
    /\ reply = NoReply
    /\ result_data = None
    /\ display = <<>>
    /\ calls = 0
    /\ requests = 0

StartupNoStop ==
    /\ pc = "startup"
    /\ pc' = "ui"
    /\ display' = IF api_key_present THEN display
                  ELSE Append(display, Note("error", "startup", "KeyError", None))
    /\ UNCHANGED <<api_key_present, clicked, user_input, reply, result_data,
                   calls, requests>>

\* genai.configure(api_key=st.secrets[...]); on KeyError st.error and st.stop
Startup ==
    /\ pc = "startup"
    /\ IF api_key_present
       THEN pc' = "ui" /\ UNCHANGED display
       ELSE /\ display' = Append(display, Note("error", "startup", "KeyError", None))
            /\ pc' = "stopped"
    /\ UNCHANGED <<api_key_present, clicked, user_input, reply, result_data,
                   calls, requests>>

\* a run in which st.button returns False: the page is drawn, nothing more
NoClick ==
    /\ pc = "ui"
    /\ \E text \in Inputs : user_input' = text
    /\ clicked' = FALSE
    /\ pc' = "done"
    /\ UNCHANGED <<api_key_present, reply, result_data, display, calls, requests>>

ButtonClickNoStrip ==
    /\ pc = "ui"
    /\ \E text \in Inputs :
          /\ user_input' = text
          /\ IF text # <<>>
             THEN /\ pc' = "classify"
                  /\ calls' = calls + 1
                  /\ UNCHANGED display
             ELSE /\ display' = Append(display, Note("warning", "handler", "none", None))
                  /\ pc' = "done"
                  /\ UNCHANGED calls
    /\ clicked' = TRUE
    /\ UNCHANGED <<api_key_present, reply, result_data, requests>>

\* st.button returns True: if user_input and user_input.strip(), enter
\* classify_abstract; else st.warning
ButtonClick ==
    /\ pc = "ui"
    /\ \E text \in Inputs :
          /\ user_input' = text
          /\ IF text # <<>> /\ Strip(text) # <<>>
             THEN /\ pc' = "classify"
                  /\ calls' = calls + 1
                  /\ UNCHANGED display
             ELSE /\ display' = Append(display, Note("warning", "handler", "none", None))
                  /\ pc' = "done"
                  /\ UNCHANGED calls
    /\ clicked' = TRUE
    /\ UNCHANGED <<api_key_present, reply, result_data, requests>>

GenerateContentRetry ==
    /\ pc = "classify"
    /\ \E r \in Replies :
          /\ reply' = r
          /\ requests' = IF r.kind = "exc" THEN requests + 2 ELSE requests + 1
    /\ pc' = "responded"
    /\ UNCHANGED <<api_key_present, clicked, user_input, result_data, display, calls>>

\* model.generate_content(prompt): one request, which returns text or raises
GenerateContent ==
    /\ pc = "classify"
    /\ \E r \in Replies : reply' = r
    /\ requests' = requests + 1
    /\ pc' = "responded"
    /\ UNCHANGED <<api_key_present, clicked, user_input, result_data, display, calls>>

\* the rest of classify_abstract: clean, json.loads, return or except
ClassifyReturn ==
    /\ pc = "responded"
    /\ LET out == classify_abstract(reply)
       IN  /\ result_data' = out.value
           /\ display' = display \o out.shown
           /\ pc' = IF out.raised THEN "crashed" ELSE "handle"
    /\ UNCHANGED <<api_key_present, clicked, user_input, reply, calls, requests>>

\* the handler after classify_abstract returned
ShowResult ==
    /\ pc = "handle"
    /\ LET out == show_result(result_data)
       IN  /\ display' = display \o out.shown
           /\ pc' = IF out.raised THEN "crashed" ELSE "done"
    /\ UNCHANGED <<api_key_present, clicked, user_input, reply, result_data,
                   calls, requests>>

\* the next interaction: the script starts again with an empty page
Rerun ==
    /\ pc \in {"done", "crashed", "stopped"}
    /\ pc' = "startup"
    /\ clicked' = FALSE
    /\ reply' = NoReply
    /\ result_data' = None
    /\ display' = <<>>
    /\ calls' = 0
    /\ requests' = 0
    /\ UNCHANGED <<api_key_present, user_input>>

Next ==
    \/ Startup
    \/ NoClick
    \/ ButtonClick
    \/ GenerateContent
    \/ ClassifyReturn
    \/ ShowResult
    \/ Rerun

Spec == Init /\ [][Next]_vars

-----------------------------------------------------------------------------
(* Vocabulary of the properties *)

\* classify_abstract has returned (or raised) in this run
Returned == pc \in {"handle", "done", "crashed"} /\ calls = 1

\* the click has been handled to its end
Finished == pc \in {"done", "crashed"} /\ calls = 1

IsBlank(s) == \A i \in 1..Len(s) : s[i] \in PyWhitespace

Count(kind, by) ==
    Cardinality({i \in 1..Len(display) :
                    display[i].kind = kind /\ display[i].by = by})

Errors == {i \in 1..Len(display) : display[i].kind = "error"}

LabelShown == \E i \in 1..Len(display) : display[i].kind = "info"

ReasonShown == \E i \in 1..Len(display) : display[i].kind = "markdown"

Unparseable ==
    \/ reply.kind = "exc"
    \/ reply.kind = "text" /\ ~json_loads(Clean(reply.text)).ok

HasBothKeys(x) == x.t = "dict" /\ HasKey(x, LabelKey) /\ HasKey(x, ReasonKey)

\* the response text, taken as it is, is a JSON object with string label
\* and reason
WellFormedLabelled(text) ==
    LET p == json_loads(text)
    IN  /\ p.ok
        /\ HasBothKeys(p.val)
        /\ Get(p.val, LabelKey).t = "str"
        /\ Get(p.val, ReasonKey).t = "str"

-----------------------------------------------------------------------------
(* The properties *)

\* C1: for every response text that is a well-formed JSON object with string
\* label and reason, classify_abstract returns an object whose label and
\* reason are exactly the strings carried in the response.
C1_PassThrough ==
    (Returned /\ reply.kind = "text" /\ WellFormedLabelled(reply.text)) =>
        /\ HasBothKeys(result_data)
        /\ Get(result_data, LabelKey) = Get(json_loads(reply.text).val, LabelKey)
        /\ Get(result_data, ReasonKey) = Get(json_loads(reply.text).val, ReasonKey)

\* C2: classify_abstract on a response text wrapped in a markdown fence
\* (optional newlines inside, whitespace around) has the same outcome as
\* classify_abstract on the text alone.
C2_FenceInsensitive ==
    (Returned /\ reply.kind = "text") =>
        \A w1 \in Pads, n1 \in Newlines, n2 \in Newlines, w2 \in Pads :
            LET fenced == classify_abstract(TextReply(Wrap(w1, n1, reply.text, n2, w2)))
            IN  /\ fenced.value = result_data
                /\ Len(fenced.shown) = Count("error", "classify_abstract")

\* C3: when the response text does not parse after cleaning, or the remote
\* call raised, classify_abstract returns None after showing one error that
\* carries the exception, and nothing propagates to the caller.
C3_ErrorValue ==
    (Returned /\ Unparseable) =>
        /\ result_data = None
        /\ Count("error", "classify_abstract") = 1
        /\ \A i \in Errors :
              display[i].by = "classify_abstract" => display[i].exc # "none"
        /\ pc # "crashed"

C3_Witness ==
    /\ pc = "done"
    /\ reply.kind = "text"
    /\ reply.text = <<"{">> \o Member(LabelKey, Quoted(<<"x">>)) \o <<",">>
    /\ result_data = None

\* C4: a click with an empty or whitespace-only abstract never enters
\* classify_abstract and issues no request; only a warning is shown.
C4_BlankInputRefused ==
    (clicked /\ IsBlank(user_input)) =>
        /\ calls = 0
        /\ requests = 0
        /\ pc = "done"
        /\ display = <<Note("warning", "handler", "none", None)>>

C4_Witness ==
    /\ clicked
    /\ user_input = <<"\n", "\f">>
    /\ pc = "done"

\* C5: every invocation of classify_abstract issues exactly one request,
\* whether it succeeds, fails or returns unparseable text.
C5_OneRequest ==
    /\ calls <= 1
    /\ pc = "classify" => calls = 1 /\ requests = 0
    /\ pc # "classify" => requests = calls

C5_Witness ==
    /\ pc = "done"
    /\ reply.kind = "exc"
    /\ calls = 1
    /\ requests = 1

\* C6: every failure of a click (remote error, unparseable output, JSON
\* without label or reason) ends with exactly one error notification, and
\* that notification carries the exception text.
C6_SingleErrorWithDetail ==
    (Finished /\ (Unparseable \/ ~HasBothKeys(result_data))) =>
        /\ Cardinality(Errors) = 1
        /\ \A i \in Errors : display[i].exc # "none"

\* C7: label and reasoning are rendered if and only if the parsed response
\* has both keys; otherwise neither is rendered and the click is reported as
\* a failure; a rendered result never comes with an error notification.
C7_NoPartialResult ==
    Finished =>
        /\ (LabelShown /\ ReasonShown) <=> HasBothKeys(result_data)
        /\ ~HasBothKeys(result_data) =>
              ~LabelShown /\ ~ReasonShown /\ Errors # {}
        /\ (LabelShown \/ ReasonShown) => Errors = {}

C9_HandlerTerminates ==
    (Returned /\ reply.kind = "text" /\ ~Unparseable) =>
        /\ pc # "crashed"
        /\ pc = "done" => (LabelShown /\ ReasonShown) \/ Errors # {}

\* C10: cleaning is idempotent and leaves no fence in the cleaned text.
C10_CleanIdempotent ==
    reply.kind = "text" =>
        /\ Clean(Clean(reply.text)) = Clean(reply.text)
        /\ ~HasSub(Clean(reply.text), Fence)

\* C10 as amended: the cleaned text holds no fence, and cleaning it again
\* only strips the whitespace the removed fences left at its ends.
C10_CleanThenStrip ==
    reply.kind = "text" =>
        /\ ~HasSub(Clean(reply.text), Fence)
        /\ Clean(Clean(reply.text)) = Strip(Clean(reply.text))
        /\ (Strip(Clean(reply.text)) = Clean(reply.text)
               => Clean(Clean(reply.text)) = Clean(reply.text))

C10_Witness ==
    /\ reply.kind = "text"
    /\ HasSub(reply.text, Fence)
    /\ Clean(reply.text) # Strip(Clean(reply.text))

====
